---- MODULE Spec2Model ----
(***************************************************************************)
(* Model of the recipe pipeline of OverEaty: rparser.RecipeReader (the     *)
(* line-tagged parser), rconverter.Converter and its three variants        *)
(* (Markdown, HTML, LaTeX), and the driver __main__.main.                  *)
(*                                                                         *)
(* A Python string is a sequence of tokens.  The tokens are the six tag    *)
(* tokens ("title:", ...), single whitespace characters (" ", "\n"), the   *)
(* letters of the recipe text and the markup fragments the converters      *)
(* emit.  No tag token is a substring of another tag token or overlaps     *)
(* itself, so str.split / str.startswith on a tag act on whole tokens.     *)
(***************************************************************************)
EXTENDS Integers, Sequences, FiniteSets, TLC

VARIABLES
    lines,        \* RecipeReader: the lines of the file at self.filepath
    recipe_info,  \* RecipeReader.recipe_info
    nparse,       \* number of completed calls of RecipeReader.parse
    rdict,        \* Converter.rdict
    conv,         \* the converter class in use: "md", "html" or "tex"
    recipe_text,  \* Converter.recipe_text
    ret,          \* value returned by the last explicit call of format()
    disk,         \* files written by save_output: path -> text
    cpc,          \* position of the converter object's user
    RECIPES,      \* main: the list of recipe files collected by os.walk
    idx,          \* main: 1-based position of the loop over RECIPES
    status        \* main: "running", "done" or "aborted" (exception escaped)

vars == <<lines, recipe_info, nparse, rdict, conv, recipe_text, ret, disk,
          cpc, RECIPES, idx, status>>

(***************************************************************************)
(* Bounds                                                                  *)
(***************************************************************************)
MaxLines == 4        \* lines of a parsed file
MaxParses == 2       \* calls of parse() on one reader
MaxRenderLines == 4  \* lines of the files whose records are rendered
MaxFiles == 4        \* length of RECIPES in the driver

(***************************************************************************)
(* Python string helpers                                                   *)
(***************************************************************************)
Whitespace == {" ", "\n"}

RECURSIVE LStrip(_)
LStrip(s) ==
    IF s # <<>> /\ Head(s) \in Whitespace THEN LStrip(Tail(s)) ELSE s

RECURSIVE RStrip(_)
RStrip(s) ==
    IF s # <<>> /\ s[Len(s)] \in Whitespace
    THEN RStrip(SubSeq(s, 1, Len(s) - 1)) ELSE s

\* str.strip()
Strip(s) == RStrip(LStrip(s))

\* str.startswith(tag)
StartsWith(s, tag) == s # <<>> /\ s[1] = tag

\* str.split(sep): the list of the pieces between ALL occurrences of sep
RECURSIVE Split(_, _)
Split(s, sep) ==
    IF \E i \in 1..Len(s) : s[i] = sep
    THEN LET i == CHOOSE k \in 1..Len(s) :
                      s[k] = sep /\ \A j \in 1..(k - 1) : s[j] # sep
         IN <<SubSeq(s, 1, i - 1)>> \o Split(SubSeq(s, i + 1, Len(s)), sep)
    ELSE <<s>>

\* string.split(tag)[1].strip()  (Python index 1 is the second piece)
TagValue(string, tag) == Strip(Split(string, tag)[2])

\* x in list
In(x, list) == \E i \in 1..Len(list) : list[i] = x

(***************************************************************************)
(* rparser.RecipeReader                                                    *)
(***************************************************************************)
\* recipe_info as set by __init__; "stages" is an insertion-ordered dict,
\* modelled as the sequence of its (key, value) items
FreshInfo ==
    [title |-> <<>>, time |-> <<"N/A">>, ingredients |-> <<>>,
     stages |-> <<>>, comments |-> <<>>]

\* self.recipe_info["stages"].keys()
StageKeys(info) == {info.stages[i].name : i \in 1..Len(info.stages)}

\* position of key stage in the dict
StagePos(info, stage) ==
    CHOOSE i \in 1..Len(info.stages) : info.stages[i].name = stage

_parse_comment(info, string) ==
    LET comment == TagValue(string, "comment:")
    IN IF ~In(comment, info.comments)
       THEN [info EXCEPT !.comments = Append(@, comment)]
       ELSE info

\* a variant that appends without the membership test
_parse_ingredient_nocheck(info, string) ==
    [info EXCEPT !.ingredients = Append(@, TagValue(string, "ingredient:"))]

_parse_ingredient(info, string) ==
    LET ingredient == TagValue(string, "ingredient:")
    IN IF ~In(ingredient, info.ingredients)
       THEN [info EXCEPT !.ingredients = Append(@, ingredient)]
       ELSE info

\* a variant that starts an empty list on every declaration
_parse_stage_reset(info, string) ==
    LET stage == TagValue(string, "stage:")
    IN IF stage \notin StageKeys(info)
       THEN [info EXCEPT !.stages = Append(@, [name |-> stage, steps |-> <<>>])]
       ELSE [info EXCEPT !.stages[StagePos(info, stage)].steps = <<>>]

\* the record after _parse_stage; its return value is StageOf(string)
_parse_stage(info, string) ==
    LET stage == TagValue(string, "stage:")
    IN IF stage \notin StageKeys(info)
       THEN [info EXCEPT !.stages = Append(@, [name |-> stage, steps |-> <<>>])]
       ELSE info

StageOf(string) == TagValue(string, "stage:")

\* a variant that creates the stage of a step when it is missing
_parse_step_create(info, string, stage) ==
    LET step == TagValue(string, "step:")
    IN IF stage \notin StageKeys(info)
       THEN [info EXCEPT !.stages =
                Append(@, [name |-> stage, steps |-> <<step>>])]
       ELSE LET p == StagePos(info, stage)
            IN IF ~In(step, info.stages[p].steps)
               THEN [info EXCEPT !.stages[p].steps = Append(@, step)]
               ELSE info

_parse_step(info, string, stage) ==
    IF stage \notin StageKeys(info)
    THEN info
    ELSE LET step == TagValue(string, "step:")
             p == StagePos(info, stage)
         IN IF ~In(step, info.stages[p].steps)
            THEN [info EXCEPT !.stages[p].steps = Append(@, step)]
            ELSE info

_parse_time(info, string) ==
    [info EXCEPT !.time = TagValue(string, "time:")]

_parse_title(info, string) ==
    [info EXCEPT !.title = TagValue(string, "title:")]

\* the loop of parse() from line i on, with the local curr_stage
RECURSIVE ParseLoop(_, _, _, _)
ParseLoop(info, curr_stage, ls, i) ==
    IF i > Len(ls) THEN info
    ELSE LET line == ls[i]
         IN IF StartsWith(line, "title:")
            THEN ParseLoop(_parse_title(info, line), curr_stage, ls, i + 1)
            ELSE IF StartsWith(line, "time:")
            THEN ParseLoop(_parse_time(info, line), curr_stage, ls, i + 1)
            ELSE IF StartsWith(line, "ingredient:")
            THEN ParseLoop(_parse_ingredient(info, line), curr_stage, ls, i + 1)
            ELSE IF StartsWith(line, "stage:")
            THEN ParseLoop(_parse_stage(info, line), StageOf(line), ls, i + 1)
            ELSE IF StartsWith(line, "step:")
            THEN ParseLoop(_parse_step(info, line, curr_stage), curr_stage,
                           ls, i + 1)
            ELSE IF StartsWith(line, "comment:")
            THEN ParseLoop(_parse_comment(info, line), curr_stage, ls, i + 1)
            ELSE ParseLoop(info, curr_stage, ls, i + 1)

\* parse() on an existing file: curr_stage = "" and the loop over all lines
parse(info, ls) == ParseLoop(info, <<>>, ls, 1)

(***************************************************************************)
(* Inputs of the parser                                                    *)
(***************************************************************************)
\* a line "<tag><body>\n" as readlines() returns it
L(tag, body) == <<tag>> \o body \o <<"\n">>

InputLines ==
    { L("title:", <<" ", "a">>),
      L("title:", <<" ", "title:", " ", "a">>),
      L("time:", <<" ", "b">>),
      L("ingredient:", <<" ", "a">>),
      L("ingredient:", <<"a", " ">>),
      L("ingredient:", <<" ", "b">>),
      L("stage:", <<" ", "a">>),
      L("stage:", <<" ", "b">>),
      L("stage:", <<>>),
      L("step:", <<" ", "a">>),
      L("step:", <<" ", "b">>),
      L("comment:", <<" ", "a">>),
      L("comment:", <<" ", "b">>),
      <<" ", "step:", " ", "a", "\n">> }

SeqsUpTo(S, n) == UNION {[1..k -> S] : k \in 0..n}

\* longer recipes: repeated ingredients, steps and comments, a stage that is
\* declared again after another stage, a step before the first stage
LongFiles ==
    { << L("title:", <<" ", "a">>), L("time:", <<" ", "b">>),
         L("ingredient:", <<" ", "a">>), L("ingredient:", <<" ", "b">>),
         L("ingredient:", <<"a", " ">>),
         L("step:", <<" ", "b">>),
         L("stage:", <<" ", "a">>), L("step:", <<" ", "a">>),
         L("stage:", <<" ", "b">>), L("step:", <<" ", "a">>),
         L("step:", <<" ", "b">>), L("step:", <<" ", "a">>),
         L("stage:", <<" ", "a">>), L("step:", <<" ", "b">>),
         L("step:", <<" ", "a">>),
         L("comment:", <<" ", "a">>), L("comment:", <<" ", "b">>),
         L("comment:", <<" ", "a">>) >>,
      << L("ingredient:", <<" ", "b">>), L("ingredient:", <<" ", "a">>),
         L("ingredient:", <<" ", "b">>),
         L("stage:", <<" ", "b">>), L("step:", <<" ", "b">>),
         L("stage:", <<>>), L("step:", <<" ", "b">>),
         L("stage:", <<" ", "b">>), L("step:", <<" ", "a">>),
         L("step:", <<" ", "b">>) >> }

Files == SeqsUpTo(InputLines, MaxLines) \cup LongFiles

NoDisk == <<>>
NoRet == [called |-> FALSE, none |-> FALSE, text |-> <<>>]

(***************************************************************************)
(* Specification of one reader: RecipeReader(filepath, read_now=False)     *)
(* followed by calls of parse()                                            *)
(***************************************************************************)
InitParse ==
    /\ lines \in Files
    /\ recipe_info = FreshInfo
    /\ nparse = 0
    /\ rdict = FreshInfo
    /\ conv = "md"
    /\ recipe_text = <<>>
    /\ ret = NoRet
    /\ disk = NoDisk
    /\ cpc = "none"
    /\ RECIPES = <<>>
    /\ idx = 1
    /\ status = "none"

Parse ==
    /\ status = "none"
    /\ cpc = "none"
    /\ nparse < MaxParses
    /\ recipe_info' = parse(recipe_info, lines)
    /\ nparse' = nparse + 1
    /\ UNCHANGED <<lines, rdict, conv, recipe_text, ret, disk, cpc, RECIPES,
                   idx, status>>

NextParse == Parse

SpecParse == InitParse /\ [][NextParse]_vars

(***************************************************************************)
(* Properties of the parser                                                *)
(***************************************************************************)
\* the indices of the lines the loop of parse() dispatches on tag
TagLines(tag) == {i \in 1..Len(lines) : StartsWith(lines[i], tag)}

\* the elements of a set of indices, in increasing order
RECURSIVE Ascending(_)
Ascending(S) ==
    IF S = {} THEN <<>>
    ELSE LET m == CHOOSE x \in S : \A y \in S : x <= y
         IN <<m>> \o Ascending(S \ {m})

\* the values of the lines at the indices S, in file order
ValuesAt(S, tag) ==
    LET ix == Ascending(S)
    IN [k \in 1..Len(ix) |-> TagValue(lines[ix[k]], tag)]

\* the stage a step line at index i belongs to: the name on the nearest
\* stage line before it
HasStageBefore(i) == \E j \in TagLines("stage:") : j < i
StageBefore(i) ==
    LET j == CHOOSE k \in TagLines("stage:") :
                 k < i /\ \A m \in TagLines("stage:") : m < i => m <= k
    IN TagValue(lines[j], "stage:")

\* the step lines that follow (some occurrence of) stage: X
StepLinesOf(X) ==
    {i \in TagLines("step:") : HasStageBefore(i) /\ StageBefore(i) = X}

NoDup(list) ==
    \A k, l \in 1..Len(list) : list[k] = list[l] => k = l

FirstIdx(vals, v) ==
    CHOOSE k \in 1..Len(vals) :
        vals[k] = v /\ \A j \in 1..(k - 1) : vals[j] # v

\* list holds each value of vals once, ordered by first occurrence in vals
FirstSeenOrder(list, vals) ==
    /\ NoDup(list)
    /\ {list[k] : k \in 1..Len(list)} = {vals[k] : k \in 1..Len(vals)}
    /\ \A k, l \in 1..Len(list) :
          k < l => FirstIdx(vals, list[k]) < FirstIdx(vals, list[l])

\* C1: after parsing into a fresh record, ingredients, comments and every
\* stage's step list hold no two equal strings and are ordered by first
\* occurrence in the file; steps are de-duplicated per stage only, so a step
\* text that follows two different stages is in both lists.
C1_NoDuplicatesFirstSeen ==
    nparse = 1 =>
        /\ FirstSeenOrder(recipe_info.ingredients,
                          ValuesAt(TagLines("ingredient:"), "ingredient:"))
        /\ FirstSeenOrder(recipe_info.comments,
                          ValuesAt(TagLines("comment:"), "comment:"))
        /\ \A p \in 1..Len(recipe_info.stages) :
              FirstSeenOrder(recipe_info.stages[p].steps,
                             ValuesAt(StepLinesOf(recipe_info.stages[p].name),
                                      "step:"))

\* a repeated value with a different one in between, in lines of one kind
RepeatedAround(S, tag) ==
    \E i, j, k \in S :
        /\ i < j /\ j < k
        /\ TagValue(lines[i], tag) = TagValue(lines[k], tag)
        /\ TagValue(lines[i], tag) # TagValue(lines[j], tag)

C1_Witness ==
    /\ nparse = 1
    /\ RepeatedAround(TagLines("ingredient:"), "ingredient:")
    /\ RepeatedAround(TagLines("comment:"), "comment:")
    /\ \E p, q \in 1..Len(recipe_info.stages) :
          /\ p # q
          /\ RepeatedAround(StepLinesOf(recipe_info.stages[p].name), "step:")
          /\ Len(recipe_info.stages[p].steps) = 2
          /\ \E k \in 1..Len(recipe_info.stages[q].steps) :
                In(recipe_info.stages[q].steps[k], recipe_info.stages[p].steps)

\* the whole text after the first occurrence of tag
AfterFirst(s, tag) ==
    LET i == CHOOSE k \in 1..Len(s) :
                 s[k] = tag /\ \A j \in 1..(k - 1) : s[j] # tag
    IN SubSeq(s, i + 1, Len(s))

LastOf(S) == CHOOSE x \in S : \A y \in S : y <= x

\* C2: for every tag the stored value of a recognized line is the whole text
\* after the first occurrence of the tag token, trimmed, also when the tag
\* token occurs again later in the line.
C2_WholeTextAfterFirstTag ==
    nparse = 1 =>
        /\ TagLines("title:") # {} =>
              recipe_info.title =
                  Strip(AfterFirst(lines[LastOf(TagLines("title:"))], "title:"))
        /\ TagLines("time:") # {} =>
              recipe_info.time =
                  Strip(AfterFirst(lines[LastOf(TagLines("time:"))], "time:"))
        /\ \A i \in TagLines("ingredient:") :
              In(Strip(AfterFirst(lines[i], "ingredient:")),
                 recipe_info.ingredients)
        /\ \A i \in TagLines("comment:") :
              In(Strip(AfterFirst(lines[i], "comment:")), recipe_info.comments)
        /\ \A i \in TagLines("stage:") :
              Strip(AfterFirst(lines[i], "stage:")) \in StageKeys(recipe_info)
        /\ \A i \in TagLines("step:") :
              HasStageBefore(i) =>
                  \E p \in 1..Len(recipe_info.stages) :
                      In(Strip(AfterFirst(lines[i], "step:")),
                         recipe_info.stages[p].steps)

\* C3: in a fresh record, a step line with no stage line before it is in no
\* stage's step list: every listed step comes from a step line that has a
\* stage line before it.
C3_OrphanStepDropped ==
    nparse = 1 =>
        \A p \in 1..Len(recipe_info.stages) :
            \A k \in 1..Len(recipe_info.stages[p].steps) :
                \E i \in TagLines("step:") :
                    /\ HasStageBefore(i)
                    /\ TagValue(lines[i], "step:") =
                           recipe_info.stages[p].steps[k]

C3_Witness ==
    /\ nparse = 1
    /\ \E i \in TagLines("step:") :
          /\ ~HasStageBefore(i)
          /\ \E j \in TagLines("stage:") : i < j
          /\ \E p \in 1..Len(recipe_info.stages) :
                /\ recipe_info.stages[p].steps # <<>>
                /\ ~In(TagValue(lines[i], "step:"),
                       recipe_info.stages[p].steps)

\* the values of vals without repetitions, each at its first position
FirstOccurrences(vals) ==
    LET keep == {k \in 1..Len(vals) : \A j \in 1..(k - 1) : vals[j] # vals[k]}
        ix == Ascending(keep)
    IN [k \in 1..Len(ix) |-> vals[ix[k]]]

\* C4: a second stage: X line neither resets nor duplicates the entry: the
\* keys of stages are the stage names in order of first declaration, and
\* the list of X is the in-order, de-duplicated union of the steps that
\* follow every occurrence of stage: X.
C4_StageReuse ==
    nparse = 1 =>
        /\ [p \in 1..Len(recipe_info.stages) |-> recipe_info.stages[p].name]
               = FirstOccurrences(ValuesAt(TagLines("stage:"), "stage:"))
        /\ \A p \in 1..Len(recipe_info.stages) :
              recipe_info.stages[p].steps =
                  FirstOccurrences(
                      ValuesAt(StepLinesOf(recipe_info.stages[p].name),
                               "step:"))

\* stage X declared, another stage declared, X declared again, each
\* occurrence of X followed by a step of its own
C4_Witness ==
    /\ nparse = 1
    /\ \E i, j, k \in TagLines("stage:") :
          /\ i < j /\ j < k
          /\ TagValue(lines[i], "stage:") = TagValue(lines[k], "stage:")
          /\ TagValue(lines[i], "stage:") # TagValue(lines[j], "stage:")
          /\ \E s, t, u \in TagLines("step:") :
                /\ i < s /\ s < j /\ j < t /\ t < k /\ k < u
                /\ TagValue(lines[s], "step:") # TagValue(lines[u], "step:")
                /\ recipe_info.stages[1].name = TagValue(lines[i], "stage:")
                /\ recipe_info.stages[1].steps =
                       <<TagValue(lines[s], "step:"),
                         TagValue(lines[u], "step:")>>

\* C10: a second parse() on the same reader with the same file leaves the
\* record as the first call left it.
C10_ParseIdempotent ==
    nparse = 2 => recipe_info = parse(FreshInfo, lines)

(***************************************************************************)
(* rconverter: the leaf formatters of the three variants                   *)
(***************************************************************************)
\* "".join of a list of strings
RECURSIVE Flatten(_)
Flatten(ss) == IF ss = <<>> THEN <<>> ELSE Head(ss) \o Flatten(Tail(ss))

\* "#" * level
RECURSIVE Hashes(_)
Hashes(level) == IF level <= 0 THEN <<>> ELSE <<"#">> \o Hashes(level - 1)

\* dict.get(key, default)
Get(d, key, default) == IF key \in DOMAIN d THEN d[key] ELSE default

Markdown_make_header(title, level) ==
    Hashes(level) \o <<" ">> \o title \o <<"\n", "\n">>

Markdown_make_line(text) == text \o <<"\n", "\n">>

Markdown_make_ol(litems) ==
    Flatten([i \in 1..Len(litems) |->
                <<ToString(i), ".", " ">> \o litems[i] \o <<"\n">>])

Markdown_make_ul(litems) ==
    Flatten([i \in 1..Len(litems) |-> <<"*", " ">> \o litems[i] \o <<"\n">>])

HTML_make_header(title, level) ==
    <<"<h", ToString(level), ">">> \o title
        \o <<"</h", ToString(level), ">", "\n">>

HTML_make_line(text) == <<"<p>">> \o text \o <<"</p>", "\n">>

HTML_make_ol(litems) ==
    <<"<ol>", "\n">>
        \o Flatten([i \in 1..Len(litems) |->
                       <<"<li>">> \o litems[i] \o <<"</li>", "\n">>])
        \o <<"</ol>", "\n">>

HTML_make_ul(litems) ==
    <<"<ul>", "\n">>
        \o Flatten([i \in 1..Len(litems) |->
                       <<"<li>">> \o litems[i] \o <<"</li>", "\n">>])
        \o <<"</ul>", "\n">>

\* LaTeXConverter.header_format: level -> the command that opens the header
header_format ==
    [level \in 1..5 |->
        <<"\\section*{", "\\subsection*{", "\\subsubsection*{",
          "\\paragraph*{", "\\subparagraph*{">>[level]]

LaTeX_make_header(title, level) ==
    IF level \in DOMAIN header_format
    THEN <<header_format[level]>> \o title \o <<"}", "\n">>
    ELSE title \o <<"\n">>

LaTeX_make_line(text) == text \o <<"\n">>

LaTeX_make_ol(litems) ==
    <<"\\begin{enumerate}", "\n">>
        \o Flatten([i \in 1..Len(litems) |->
                       <<"\\item ">> \o litems[i] \o <<"\n">>])
        \o <<"\\end{enumerate}", "\n">>

LaTeX_make_ul(litems) ==
    <<"\\begin{itemize}", "\n">>
        \o Flatten([i \in 1..Len(litems) |->
                       <<"\\item ">> \o litems[i] \o <<"\n">>])
        \o <<"\\end{itemize}", "\n">>

\* LaTeXConverter.initial
LaTeX_initial ==
    <<"\\documentclass{article}", "\n", "\\usepackage[english]{babel}", "\n",
      "\\usepackage[utf8]{inputenc}", "\n", "\\begin{document}", "\n">>

\* the keys of CONVERTERS
Convs == {"md", "html", "tex"}

\* dispatch of self._make_* on the class of self
_make_header(c, text, level) ==
    CASE c = "md" -> Markdown_make_header(text, level)
      [] c = "html" -> HTML_make_header(text, level)
      [] c = "tex" -> LaTeX_make_header(text, level)

_make_line(c, text) ==
    CASE c = "md" -> Markdown_make_line(text)
      [] c = "html" -> HTML_make_line(text)
      [] c = "tex" -> LaTeX_make_line(text)

_make_ol(c, litems) ==
    CASE c = "md" -> Markdown_make_ol(litems)
      [] c = "html" -> HTML_make_ol(litems)
      [] c = "tex" -> LaTeX_make_ol(litems)

_make_ul(c, litems) ==
    CASE c = "md" -> Markdown_make_ul(litems)
      [] c = "html" -> HTML_make_ul(litems)
      [] c = "tex" -> LaTeX_make_ul(litems)

(***************************************************************************)
(* rconverter.Converter.format and the override of LaTeXConverter          *)
(***************************************************************************)
\* the loop over rdict["stages"].items()
StagesText(c, stages) ==
    Flatten([p \in 1..Len(stages) |->
                _make_header(c, stages[p].name, 2)
                    \o _make_ol(c, stages[p].steps) \o <<"\n">>])

\* a variant that emits the Comments section without testing the list
Converter_format_always(c, rd, initial) ==
    initial
        \o _make_header(c, Get(rd, "title", <<"Recipe Title">>), 1)
        \o _make_line(c, Get(rd, "time", <<"Time: N/A">>))
        \o _make_ul(c, Get(rd, "ingredients", <<>>)) \o <<"\n">>
        \o StagesText(c, Get(rd, "stages", <<>>))
        \o _make_header(c, <<"Comments">>, 2)
        \o _make_ul(c, Get(rd, "comments", <<>>))

\* a variant that writes the stages before the ingredients
Converter_format_swapped(c, rd, initial) ==
    LET comments == Get(rd, "comments", <<>>)
    IN initial
        \o _make_header(c, Get(rd, "title", <<"Recipe Title">>), 1)
        \o _make_line(c, Get(rd, "time", <<"Time: N/A">>))
        \o StagesText(c, Get(rd, "stages", <<>>))
        \o _make_ul(c, Get(rd, "ingredients", <<>>)) \o <<"\n">>
        \o (IF comments # <<>>
            THEN _make_header(c, <<"Comments">>, 2) \o _make_ul(c, comments)
            ELSE <<>>)

\* Converter.format: the text it leaves in self.recipe_text and returns
Converter_format(c, rd, initial) ==
    LET comments == Get(rd, "comments", <<>>)
    IN initial
        \o _make_header(c, Get(rd, "title", <<"Recipe Title">>), 1)
        \o _make_line(c, Get(rd, "time", <<"Time: N/A">>))
        \o _make_ul(c, Get(rd, "ingredients", <<>>)) \o <<"\n">>
        \o StagesText(c, Get(rd, "stages", <<>>))
        \o (IF comments # <<>>
            THEN _make_header(c, <<"Comments">>, 2) \o _make_ul(c, comments)
            ELSE <<>>)

\* self.format() with no arguments, on an object of class c: the text held
\* afterwards in self.recipe_text, and the value the call returns.
\* LaTeXConverter.format appends the closing line after the base call and
\* has no return statement, so it returns None.
format(c, rd) ==
    IF c = "tex"
    THEN [text |-> Converter_format(c, rd, LaTeX_initial)
                       \o <<"\\end{document}">>,
          ret |-> [called |-> TRUE, none |-> TRUE, text |-> <<>>]]
    ELSE LET t == Converter_format(c, rd, <<>>)
         IN [text |-> t,
             ret |-> [called |-> TRUE, none |-> FALSE, text |-> t]]

\* the directory and the extension of the save_output of each class
OutDir(c) ==
    CASE c = "md" -> "markdown" [] c = "html" -> "html" [] c = "tex" -> "latex"

Extension(c) ==
    CASE c = "md" -> ".md" [] c = "html" -> ".html" [] c = "tex" -> ".tex"

\* os.path.join(fpath, fname + ext) with fname = rdict["title"]
OutPath(c, rd) == [dir |-> OutDir(c), name |-> rd.title \o <<Extension(c)>>]

\* Converter.save_output: (over)write the file at the path
save_output(d, c, rd, text) ==
    [p \in DOMAIN d \cup {OutPath(c, rd)} |->
        IF p = OutPath(c, rd) THEN text ELSE d[p]]

(***************************************************************************)
(* Specification of one converter object                                   *)
(***************************************************************************)
RenderLines ==
    { L("title:", <<" ", "a">>),
      L("time:", <<" ", "b">>),
      L("ingredient:", <<" ", "a">>),
      L("ingredient:", <<" ", "b">>),
      L("stage:", <<" ", "a">>),
      L("stage:", <<" ", "b">>),
      L("step:", <<" ", "a">>),
      L("step:", <<" ", "b">>),
      L("comment:", <<" ", "a">>),
      L("comment:", <<" ", "b">>) }

\* the records handed to a converter: those a RecipeReader produces
Records ==
    {parse(FreshInfo, f) :
        f \in SeqsUpTo(RenderLines, MaxRenderLines) \cup LongFiles}

InitRender ==
    /\ rdict \in Records
    /\ conv \in Convs
    /\ recipe_text = <<>>
    /\ ret = NoRet
    /\ disk = NoDisk
    /\ cpc = "new"
    /\ lines = <<>>
    /\ recipe_info = FreshInfo
    /\ nparse = 0
    /\ RECIPES = <<>>
    /\ idx = 1
    /\ status = "none"

\* conv(rdict): __init__ stores rdict and calls self.format()
Construct ==
    /\ cpc = "new"
    /\ recipe_text' = format(conv, rdict).text
    /\ cpc' = "built"
    /\ UNCHANGED <<lines, recipe_info, nparse, rdict, conv, ret, disk,
                   RECIPES, idx, status>>

\* x = convert.format()
Format ==
    /\ cpc = "built"
    /\ recipe_text' = format(conv, rdict).text
    /\ ret' = format(conv, rdict).ret
    /\ UNCHANGED <<lines, recipe_info, nparse, rdict, conv, disk, cpc,
                   RECIPES, idx, status>>

\* convert.save_output()
SaveOutput ==
    /\ cpc = "built"
    /\ disk' = save_output(disk, conv, rdict, recipe_text)
    /\ UNCHANGED <<lines, recipe_info, nparse, rdict, conv, recipe_text, ret,
                   cpc, RECIPES, idx, status>>

NextRender == Construct \/ Format \/ SaveOutput

SpecRender == InitRender /\ [][NextRender]_vars

(***************************************************************************)
(* Properties of the converters                                            *)
(***************************************************************************)
\* seg occurs in text at position i
SegAt(text, seg, i) ==
    /\ i + Len(seg) - 1 <= Len(text)
    /\ \A k \in 1..Len(seg) : text[i + k - 1] = seg[k]

\* the first position >= from where seg occurs in text, 0 when there is none
FindFrom(text, seg, from) ==
    IF \E i \in from..(Len(text) + 1) : SegAt(text, seg, i)
    THEN CHOOSE i \in from..(Len(text) + 1) :
             /\ SegAt(text, seg, i)
             /\ \A j \in from..(i - 1) : ~SegAt(text, seg, j)
    ELSE 0

\* the segments occur in text one after the other, without overlap
RECURSIVE InOrder(_, _, _)
InOrder(text, segs, from) ==
    IF segs = <<>> THEN TRUE
    ELSE LET i == FindFrom(text, Head(segs), from)
         IN i # 0 /\ InOrder(text, Tail(segs), i + Len(Head(segs)))

\* what a reader of the document sees, per variant
SeenHeader(c, text, level) ==
    CASE c = "md" -> Hashes(level) \o <<" ">> \o text \o <<"\n">>
      [] c = "html" -> <<"<h", ToString(level), ">">> \o text
                           \o <<"</h", ToString(level), ">">>
      [] c = "tex" -> <<IF level = 1 THEN "\\section*{" ELSE "\\subsection*{">>
                          \o text \o <<"}">>

SeenLine(c, text) ==
    CASE c = "md" -> text \o <<"\n">>
      [] c = "html" -> <<"<p>">> \o text \o <<"</p>">>
      [] c = "tex" -> text \o <<"\n">>

SeenListOpen(c, ordered) ==
    CASE c = "md" -> <<>>
      [] c = "html" -> <<IF ordered THEN "<ol>" ELSE "<ul>">>
      [] c = "tex" -> <<IF ordered THEN "\\begin{enumerate}"
                                   ELSE "\\begin{itemize}">>

SeenListClose(c, ordered) ==
    CASE c = "md" -> <<>>
      [] c = "html" -> <<IF ordered THEN "</ol>" ELSE "</ul>">>
      [] c = "tex" -> <<IF ordered THEN "\\end{enumerate}"
                                   ELSE "\\end{itemize}">>

\* item k of a list
SeenItem(c, ordered, k, text) ==
    CASE c = "md" -> (IF ordered THEN <<ToString(k), ".", " ">>
                                 ELSE <<"*", " ">>) \o text \o <<"\n">>
      [] c = "html" -> <<"<li>">> \o text \o <<"</li>">>
      [] c = "tex" -> <<"\\item ">> \o text \o <<"\n">>

SeenList(c, ordered, litems) ==
    <<SeenListOpen(c, ordered)>>
        \o [k \in 1..Len(litems) |-> SeenItem(c, ordered, k, litems[k])]
        \o <<SeenListClose(c, ordered)>>

\* the parts of a record in the order a document has to show them
Landmarks(c, rd) ==
    <<SeenHeader(c, rd.title, 1), SeenLine(c, rd.time)>>
        \o SeenList(c, FALSE, rd.ingredients)
        \o Flatten([p \in 1..Len(rd.stages) |->
                       <<SeenHeader(c, rd.stages[p].name, 2)>>
                           \o SeenList(c, TRUE, rd.stages[p].steps)])
        \o (IF rd.comments # <<>>
            THEN SeenList(c, FALSE, rd.comments) ELSE <<>>)

\* C5: in each of the three variants the rendered text shows, in this order,
\* the title as level-1 header, the time line, the ingredients as unordered
\* list, each stage as level-2 header followed by its steps as ordered list
\* (step k at position k), then the comments.
C5_RenderedInOrder ==
    cpc = "built" => InOrder(recipe_text, Landmarks(conv, rdict), 1)

C5_Witness ==
    /\ cpc = "built"
    /\ conv = "md"
    /\ rdict.title # <<>>
    /\ Len(rdict.ingredients) >= 2
    /\ Len(rdict.stages) >= 2
    /\ \A p \in 1..Len(rdict.stages) : Len(rdict.stages[p].steps) >= 2
    /\ Len(rdict.comments) >= 2
    /\ Len(recipe_text) > 0

Count(text, tok) == Cardinality({i \in 1..Len(text) : text[i] = tok})

\* the number of level-2 headers in the text
H2Count(c, text) ==
    CASE c = "md" ->
             Cardinality({i \in 1..(Len(text) - 1) :
                             text[i] = "#" /\ text[i + 1] = "#"})
      [] c = "html" ->
             Cardinality({i \in 1..(Len(text) - 1) :
                             text[i] = "<h" /\ text[i + 1] = "2"})
      [] c = "tex" -> Count(text, "\\subsection*{")

\* the number of unordered lists the text opens; Markdown has no opening
\* mark, there the items are counted
ULCount(c, text) ==
    CASE c = "md" -> Count(text, "*")
      [] c = "html" -> Count(text, "<ul>")
      [] c = "tex" -> Count(text, "\\begin{itemize}")

\* C6: the Comments header and its unordered list are in the rendered text
\* if and only if the record's comments list is non-empty.
C6_CommentsIffNonEmpty ==
    cpc = "built" =>
        LET has == rdict.comments # <<>>
            n == IF has THEN 1 ELSE 0
        IN /\ (Count(recipe_text, "Comments") > 0) <=> has
           /\ H2Count(conv, recipe_text) = Len(rdict.stages) + n
           /\ ULCount(conv, recipe_text) =
                  IF conv = "md"
                  THEN Len(rdict.ingredients) + Len(rdict.comments)
                  ELSE 1 + n
           /\ has => InOrder(recipe_text,
                             <<SeenHeader(conv, <<"Comments">>, 2)>>
                                 \o SeenList(conv, FALSE, rdict.comments), 1)

C6_Witness ==
    /\ cpc = "built"
    /\ rdict.comments = <<>>
    /\ rdict.stages # <<>>
    /\ rdict.ingredients # <<>>
    /\ Count(recipe_text, "Comments") = 0

\* C7: for a record with the empty title the level-1 header carries the
\* fallback text.
C7_EmptyTitleFallback ==
    (cpc = "built" /\ rdict.title = <<>>) =>
        InOrder(recipe_text, <<SeenHeader(conv, <<"Recipe Title">>, 1)>>, 1)

\* C8: in every variant format() returns a string, the complete document:
\* the text the converter holds afterwards and save_output writes.
C8_FormatReturnsDocument ==
    ret.called =>
        /\ ~ret.none
        /\ ret.text = recipe_text
        /\ \A p \in DOMAIN disk : disk[p] = ret.text

(***************************************************************************)
(* __main__.main: the sequential driver                                    *)
(***************************************************************************)
MainFiles ==
    { << L("title:", <<" ", "a">>), L("ingredient:", <<" ", "a">>) >>,
      << L("title:", <<" ", "b">>), L("stage:", <<" ", "a">>),
         L("step:", <<" ", "a">>) >>,
      << L("title:", <<" ", "a">>), L("comment:", <<" ", "b">>) >> }

\* an entry of RECIPES: the file may be gone when parse() looks for it
MainEntries ==
    {[exists |-> FALSE, lines |-> <<>>]}
        \cup {[exists |-> TRUE, lines |-> f] : f \in MainFiles}

InitMain ==
    /\ RECIPES \in SeqsUpTo(MainEntries, MaxFiles)
    /\ conv \in Convs
    /\ idx = 1
    /\ status = "running"
    /\ disk = NoDisk
    /\ lines = <<>>
    /\ recipe_info = FreshInfo
    /\ nparse = 0
    /\ rdict = FreshInfo
    /\ recipe_text = <<>>
    /\ ret = NoRet
    /\ cpc = "none"

\* one pass of the loop body over an existing file: RecipeReader(recipe)
\* parses it, conv(recipe_info) formats it, save_output() writes it
MainIteration ==
    /\ status = "running"
    /\ idx <= Len(RECIPES)
    /\ RECIPES[idx].exists
    /\ LET info == parse(FreshInfo, RECIPES[idx].lines)
           text == format(conv, info).text
       IN /\ lines' = RECIPES[idx].lines
          /\ recipe_info' = info
          /\ nparse' = 1
          /\ rdict' = info
          /\ recipe_text' = text
          /\ disk' = save_output(disk, conv, info, text)
    /\ idx' = idx + 1
    /\ UNCHANGED <<conv, ret, cpc, RECIPES, status>>

\* a variant of the failing pass that skips the file and goes on
MainRaise_skip ==
    /\ status = "running"
    /\ idx <= Len(RECIPES)
    /\ ~RECIPES[idx].exists
    /\ lines' = <<>>
    /\ recipe_info' = FreshInfo
    /\ nparse' = 0
    /\ idx' = idx + 1
    /\ UNCHANGED <<rdict, conv, recipe_text, ret, disk, cpc, RECIPES, status>>

\* the pass over a path that does not exist: __init__ has set the fresh
\* record, parse() raises ParserException, nothing catches it
MainRaise ==
    /\ status = "running"
    /\ idx <= Len(RECIPES)
    /\ ~RECIPES[idx].exists
    /\ lines' = <<>>
    /\ recipe_info' = FreshInfo
    /\ nparse' = 0
    /\ status' = "aborted"
    /\ UNCHANGED <<rdict, conv, recipe_text, ret, disk, cpc, RECIPES, idx>>

\* the loop is exhausted and main returns
MainReturn ==
    /\ status = "running"
    /\ idx > Len(RECIPES)
    /\ status' = "done"
    /\ UNCHANGED <<lines, recipe_info, nparse, rdict, conv, recipe_text, ret,
                   disk, cpc, RECIPES, idx>>

NextMain == MainIteration \/ MainRaise \/ MainReturn

SpecMain == InitMain /\ [][NextMain]_vars

\* the position of the first missing file of RECIPES, Len + 1 without one
FirstMissing ==
    IF \E i \in 1..Len(RECIPES) : ~RECIPES[i].exists
    THEN CHOOSE i \in 1..Len(RECIPES) :
             ~RECIPES[i].exists /\ \A j \in 1..(i - 1) : RECIPES[j].exists
    ELSE Len(RECIPES) + 1

\* the output files of the first n entries of RECIPES, each written in
\* turn: a later file with the same title replaces the earlier one
OutputsOf(n) ==
    LET path(i) == OutPath(conv, parse(FreshInfo, RECIPES[i].lines))
        last(p) == CHOOSE i \in 1..n :
                       path(i) = p /\ \A j \in (i + 1)..n : path(j) # p
    IN [p \in {path(i) : i \in 1..n} |->
           format(conv, parse(FreshInfo, RECIPES[last(p)].lines)).text]

\* C9: in the sequential driver a parse of a missing path aborts the run:
\* the loop never passes the first missing file, the disk holds exactly the
\* outputs of the files before it, nothing is written or retried afterwards,
\* and the record of the failed reader is the fresh one.
C9_MissingFileAborts ==
    /\ idx <= FirstMissing
    /\ status # "none" => disk = OutputsOf(idx - 1)
    /\ status = "aborted" =>
           /\ idx = FirstMissing
           /\ idx <= Len(RECIPES)
           /\ recipe_info = FreshInfo
           /\ ~ENABLED NextMain
    /\ status = "done" => FirstMissing = Len(RECIPES) + 1

C9_Witness ==
    /\ status = "aborted"
    /\ idx = 3
    /\ Len(RECIPES) > idx
    /\ RECIPES[idx + 1].exists
    /\ Cardinality(DOMAIN disk) = 2

====
